---- MODULE Spec2Model ----
(***************************************************************************)
(* Data-access layer of the warehouse scheduler (src/database.py).         *)
(*                                                                         *)
(* A Python str is modelled as a sequence of one-character strings, so     *)
(* that lower(), strip(), split(','), the regular-expression rewrites, the *)
(* f-string that builds the composite assignment id and the edit distance  *)
(* are computed character by character.  The two ChromaDB collections are  *)
(* state variables; every call of a public function is one action that     *)
(* records its arguments, the fault injected into the store (if any) and   *)
(* its outcome in the variable call.                                       *)
(***************************************************************************)
EXTENDS Naturals, Integers, Sequences, FiniteSets, Bags, TLC

VARIABLES
    employee_collection,            \* collection "employees": [id, metadata] in store order
    scheduled_employees_collection, \* id -> metadata, collection "scheduled_employees"
    ROLE_MAPPINGS,                  \* config.ROLE_MAPPINGS: role -> list of variations
    before,                         \* scheduled_employees_collection when the last call began
    call                            \* the last call: [op, args, fault, raised, ret]

\* The clock is not followed: created_at is the one value that depends on
\* it, and nothing in the module reads created_at back.

vars == <<employee_collection, scheduled_employees_collection, ROLE_MAPPINGS,
          before, call>>

\* The value of call before any public function has been called.
NoCall == [op |-> "none", args |-> <<>>, fault |-> "none", raised |-> FALSE, ret |-> <<>>]

-----------------------------------------------------------------------------
(* Bounds of the model.                                                    *)

MaxRoleLen == 4      \* longest argument of normalize_role
MaxIdsPerRole == 1   \* longest employee list of one role in assigned_employees
MaxEmployees == 2    \* largest employee collection scanned by retrieve_employees
MaxNameLen == 4      \* longest name given to find_best_match
MaxCandidates == 2   \* longest employee_list given to find_best_match

-----------------------------------------------------------------------------
(* Python values.                                                          *)

\* A value that is not a str (None): every str method on it raises.
NONE == <<"None">>

IsStr(x) == x # NONE

Range(f) == {f[i] : i \in DOMAIN f}

RECURSIVE StrsUpTo(_, _)
StrsUpTo(alphabet, n) ==
    IF n = 0 THEN {<<>>}
    ELSE LET shorter == StrsUpTo(alphabet, n - 1)
         IN  shorter \cup {Append(s, c) : s \in shorter, c \in alphabet}

IsWhitespace(c) == c \in {" ", "\t"}

\* str.lower() on one character
LowerChar(c) ==
    CASE c = "A" -> "a"
      [] c = "B" -> "b"
      [] c = "C" -> "c"
      [] c = "D" -> "d"
      [] c = "S" -> "s"
      [] OTHER -> c

\* str.lower()
Lower(s) == [i \in 1..Len(s) |-> LowerChar(s[i])]

\* str.strip(): leading and trailing whitespace removed
RECURSIVE LStrip(_)
LStrip(s) ==
    IF s # <<>> /\ IsWhitespace(Head(s)) THEN LStrip(Tail(s)) ELSE s

RECURSIVE RStrip(_)
RStrip(s) ==
    IF s # <<>> /\ IsWhitespace(s[Len(s)]) THEN RStrip(SubSeq(s, 1, Len(s) - 1)) ELSE s

Strip(s) == RStrip(LStrip(s))

\* re.sub(r's$', '', role): '$' matches at the end of the string and before a
\* final newline; the alphabet has no newline, so only the end of the string.
SubTrailingS(s) ==
    IF s # <<>> /\ s[Len(s)] = "s" THEN SubSeq(s, 1, Len(s) - 1) ELSE s

\* re.sub(r'\s+', '_', role): every maximal run of whitespace becomes one '_'
RECURSIVE SubWhitespaceRuns(_)
SubWhitespaceRuns(s) ==
    IF s = <<>> THEN <<>>
    ELSE IF IsWhitespace(Head(s))
         THEN <<"_">> \o SubWhitespaceRuns(LStrip(s))
         ELSE <<Head(s)>> \o SubWhitespaceRuns(Tail(s))

-----------------------------------------------------------------------------
(* The outcome of a call: a returned value, or an exception that reaches   *)
(* the caller.                                                             *)

Returned(v) == [raised |-> FALSE, ret |-> v]
Raised == [raised |-> TRUE, ret |-> NONE]

-----------------------------------------------------------------------------
(* normalize_role                                                          *)

\* A slip that strips after the trailing 's' is removed instead of before.
normalize_role_strip_late(role) ==
    IF ~IsStr(role) THEN Raised
    ELSE Returned(SubWhitespaceRuns(Strip(SubTrailingS(Lower(role)))))

normalize_role(role) ==
    IF ~IsStr(role) THEN Raised    \* role.lower() outside any try
    ELSE Returned(SubWhitespaceRuns(SubTrailingS(Strip(Lower(role)))))

-----------------------------------------------------------------------------
(* Python dictionaries are functions whose domain is the set of keys       *)
(* present.  A record of the store whose metadata is None is NoneMetadata. *)

NoneMetadata == [None |-> TRUE]

IsDict(metadata) == "None" \notin DOMAIN metadata

\* dict.get(key, default)
Get(d, key, default) == IF key \in DOMAIN d THEN d[key] ELSE default

\* str.split(','): the segments between commas, at least one
RECURSIVE SplitComma(_, _)
SplitComma(s, segment) ==
    IF s = <<>> THEN <<segment>>
    ELSE IF Head(s) = ","
         THEN <<segment>> \o SplitComma(Tail(s), <<>>)
         ELSE SplitComma(Tail(s), Append(segment, Head(s)))

DAY == <<"d", "a", "y">>
NIGHT == <<"n", "i", "g", "h", "t">>

-----------------------------------------------------------------------------
(* is_employee_available                                                   *)

is_employee_available(metadata) ==
    IF ~IsDict(metadata) THEN FALSE   \* metadata.get raises, caught: return False
    ELSE IF ~Get(metadata, "active", TRUE) THEN FALSE
    ELSE IF Get(metadata, "on_leave", FALSE) THEN FALSE
    ELSE LET shift_preferences == Get(metadata, "shift_preferences", <<>>)
         IN  IF shift_preferences # <<>> /\ DAY \notin Range(shift_preferences)
             THEN FALSE
             ELSE TRUE

-----------------------------------------------------------------------------
(* retrieve_employees                                                      *)

\* employee_collection.get(): the ids and metadatas in store order
all_ids == [i \in 1..Len(employee_collection) |-> employee_collection[i].id]
all_metadatas == [i \in 1..Len(employee_collection) |-> employee_collection[i].metadata]

\* metadata.get("skills", "").lower().split(','), each skill stripped;
\* raised when the stored skills value is not a str (.lower() raises)
employee_skills(metadata) ==
    LET skills == Get(metadata, "skills", <<>>)
    IN  IF ~IsStr(skills) THEN [raised |-> TRUE, list |-> <<>>]
        ELSE LET parts == SplitComma(Lower(skills), <<>>)
             IN  [raised |-> FALSE,
                  list |-> [k \in 1..Len(parts) |-> Strip(parts[k])]]

\* The inner loop (lines 55-62) from employee i on: [raised, list]
RECURSIVE ScanEmployees(_, _, _)
ScanEmployees(role_variations, i, matched) ==
    IF i > Len(all_metadatas) THEN [raised |-> FALSE, list |-> matched]
    ELSE LET metadata == all_metadatas[i]
         IN  IF ~is_employee_available(metadata)
             THEN ScanEmployees(role_variations, i + 1, matched)
             ELSE LET skills == employee_skills(metadata)
                  IN  IF skills.raised
                      THEN [raised |-> TRUE, list |-> matched]
                      ELSE IF \E v \in Range(role_variations) :
                                  Lower(v) \in Range(skills.list)
                           THEN ScanEmployees(role_variations, i + 1,
                                              Append(matched, all_ids[i]))
                           ELSE ScanEmployees(role_variations, i + 1, matched)

\* The outer loop (lines 51-65) from the k-th key of required_roles on.
\* An exception leaves matched_employees as built so far.
RECURSIVE ScanRoles(_, _, _)
ScanRoles(required_roles, k, matched_employees) ==
    IF k > Len(required_roles) THEN matched_employees
    ELSE LET role == required_roles[k].role
             role_variations == Get(ROLE_MAPPINGS, role, <<role>>)
             scan == ScanEmployees(role_variations, 1, <<>>)
             \* matched_employees[role] = [] and the appends to it
             next == [r \in DOMAIN matched_employees \cup {role} |->
                        IF r = role THEN scan.list ELSE matched_employees[r]]
         IN  IF scan.raised THEN next
             ELSE ScanRoles(required_roles, k + 1, next)

EmptyDict == [r \in {} |-> <<>>]

\* A required_roles argument that is not a dict (iterating it raises).
NoRoles == <<[role |-> NONE, count |-> 0]>>

\* A slip that caps the list of a role at its required count.
retrieve_employees_capped(required_roles, fault) ==
    IF fault # "none" \/ required_roles = NoRoles THEN Returned(EmptyDict)
    ELSE LET full == ScanRoles(required_roles, 1, EmptyDict)
             count(r) == (CHOOSE e \in Range(required_roles) : e.role = r).count
         IN  Returned([r \in DOMAIN full |->
                 IF Len(full[r]) > count(r) THEN SubSeq(full[r], 1, count(r))
                 ELSE full[r]])

\* A slip that forgets matched_employees[role] = [] for a role nobody matches.
retrieve_employees_sparse(required_roles, fault) ==
    IF fault # "none" \/ required_roles = NoRoles THEN Returned(EmptyDict)
    ELSE LET full == ScanRoles(required_roles, 1, EmptyDict)
         IN  Returned([r \in {q \in DOMAIN full : full[q] # <<>>} |-> full[r]])

\* required_roles: the (role, count) entries of the dict in iteration order,
\* or NONE; fault = "get" when employee_collection.get() raises.
retrieve_employees(required_roles, fault) ==
    IF fault # "none" THEN Returned(EmptyDict)           \* raised at line 47, caught
    ELSE IF required_roles = NoRoles THEN Returned(EmptyDict) \* iterating raises, caught
    ELSE Returned(ScanRoles(required_roles, 1, EmptyDict))

-----------------------------------------------------------------------------
(* find_best_match                                                         *)

Min(a, b) == IF a < b THEN a ELSE b

\* One row of the edit-distance table: row[j + 1] is the distance between
\* the first i characters of a and the first j characters of b.
RECURSIVE LevenshteinRow(_, _, _, _, _)
LevenshteinRow(a, b, i, prev, row) ==
    IF Len(row) = Len(b) + 1 THEN row
    ELSE LET j == Len(row)
             cost == IF a[i] = b[j] THEN 0 ELSE 1
             d == Min(Min(prev[j + 1] + 1, row[j] + 1), prev[j] + cost)
         IN  LevenshteinRow(a, b, i, prev, Append(row, d))

RECURSIVE LevenshteinRows(_, _, _, _)
LevenshteinRows(a, b, i, prev) ==
    IF i > Len(a) THEN prev[Len(b) + 1]
    ELSE LevenshteinRows(a, b, i + 1, LevenshteinRow(a, b, i, prev, <<i>>))

\* Levenshtein.distance(a, b): insertions, deletions and substitutions
Levenshtein(a, b) == LevenshteinRows(a, b, 1, [j \in 1..Len(b) + 1 |-> j - 1])

\* employee_collection.get(ids=[emp_id])["metadatas"]
EmployeeMetadatas(emp_id) ==
    LET hits == SelectSeq(employee_collection, LAMBDA e : e.id = emp_id)
    IN  [i \in 1..Len(hits) |-> hits[i].metadata]

\* The stored name_variations text is kept as what json.loads makes of it:
\* [ok |-> TRUE, list |-> the list of names], or ok = FALSE when it raises.
NoVariations == [ok |-> TRUE, list |-> <<>>]     \* the text "[]"
BadJson == [ok |-> FALSE, list |-> <<>>]

\* best_score = float('inf'), best_match = None
NoBest == [inf |-> TRUE, score |-> 0, match |-> NONE]

\* Lines 133-144 from the k-th variation on: [found, best]; found means the
\* exact match returned emp_id.  tie_goes_to_later is FALSE in the code
\* (distance < best_score).
RECURSIVE ScanVariations(_, _, _, _, _, _)
ScanVariations(name_lower, emp_id, name_variations, k, best, tie_goes_to_later) ==
    IF k > Len(name_variations) THEN [found |-> FALSE, best |-> best]
    ELSE LET variation_lower == Lower(name_variations[k])
             distance == Levenshtein(name_lower, variation_lower)
             better == \/ best.inf
                       \/ distance < best.score
                       \/ tie_goes_to_later /\ distance = best.score
         IN  IF name_lower = variation_lower
             THEN [found |-> TRUE, best |-> best]
             ELSE ScanVariations(name_lower, emp_id, name_variations, k + 1,
                     IF better
                     THEN [inf |-> FALSE, score |-> distance, match |-> emp_id]
                     ELSE best,
                     tie_goes_to_later)

\* Lines 117-146 from the i-th candidate on, then the threshold of lines
\* 149-151.  faulty: the ids whose fetch raises.
RECURSIVE ScanCandidates(_, _, _, _, _, _, _)
ScanCandidates(name, name_lower, employee_list, i, best, faulty, tie_goes_to_later) ==
    IF i > Len(employee_list)
    THEN IF ~best.inf /\ 10 * best.score <= 3 * Len(name)   \* <= len(name) * 0.3
         THEN best.match
         ELSE NONE
    ELSE LET emp_id == employee_list[i]
             metadatas == EmployeeMetadatas(emp_id)
             skip == ScanCandidates(name, name_lower, employee_list, i + 1, best,
                                    faulty, tie_goes_to_later)
         IN  IF emp_id \in faulty THEN skip               \* get raises, caught
             ELSE IF Len(metadatas) = 0 THEN skip          \* continue
             ELSE IF ~IsDict(metadatas[1]) THEN skip       \* None.get raises, caught
             ELSE LET parsed == Get(metadatas[1], "name_variations", NoVariations)
                  IN  IF ~parsed.ok THEN skip              \* json.loads raises, caught
                      ELSE LET name_variations ==
                                   IF Len(parsed.list) = 0 THEN <<emp_id>>
                                   ELSE parsed.list
                               scan == ScanVariations(name_lower, emp_id,
                                           name_variations, 1, best, tie_goes_to_later)
                           IN  IF scan.found THEN emp_id
                               ELSE ScanCandidates(name, name_lower, employee_list,
                                        i + 1, scan.best, faulty, tie_goes_to_later)

\* An employee_list argument that is not a list (iterating it raises).
NoList == <<NONE>>

\* A slip that writes distance <= best_score: a later candidate wins a tie.
find_best_match_last_wins(name, employee_list, faulty) ==
    IF ~IsStr(name) THEN Raised
    ELSE IF employee_list = NoList THEN Raised
    ELSE Returned(ScanCandidates(name, Lower(name), employee_list, 1, NoBest,
                                 faulty, TRUE))

\* A slip that forgets name.lower().
find_best_match_case_sensitive(name, employee_list, faulty) ==
    IF ~IsStr(name) THEN Raised
    ELSE IF employee_list = NoList THEN Raised
    ELSE Returned(ScanCandidates(name, name, employee_list, 1, NoBest,
                                 faulty, FALSE))

find_best_match(name, employee_list, faulty) ==
    IF ~IsStr(name) THEN Raised                   \* name.lower() outside the try
    ELSE IF employee_list = NoList THEN Raised    \* the for statement is outside the try
    ELSE Returned(ScanCandidates(name, Lower(name), employee_list, 1, NoBest,
                                 faulty, FALSE))

-----------------------------------------------------------------------------
(* get_employee_details                                                    *)

EmptyMetadata == [k \in {} |-> <<>>]

\* fault: employee_collection.get raises
get_employee_details(emp_id, fault) ==
    IF fault THEN Returned(EmptyMetadata)
    ELSE IF ~IsStr(emp_id) THEN Returned(EmptyMetadata)  \* get(ids=[None]) raises, caught
    ELSE LET metadatas == EmployeeMetadatas(emp_id)
         IN  IF Len(metadatas) = 0 THEN Returned(EmptyMetadata)
             ELSE Returned(metadatas[1])

-----------------------------------------------------------------------------
(* save_scheduled_employees                                                *)

\* "{x}" inside an f-string: str(x)
Format(x) == IF x = NONE THEN <<"N", "o", "n", "e">> ELSE x

\* f"schedule_{date}"
schedule_id_of(date) ==
    <<"s", "c", "h", "e", "d", "u", "l", "e", "_">> \o Format(date)

\* A slip that numbers the assignments instead: a fresh id for every save.
assignment_id_fresh(schedule_id, role, employee_id) ==
    schedule_id \o <<"_">> \o Format(role) \o <<"_">> \o Format(employee_id)
        \o <<"_", ToString(Cardinality(DOMAIN scheduled_employees_collection))>>

\* f"{schedule_id}_{role}_{employee_id}"
assignment_id(schedule_id, role, employee_id) ==
    schedule_id \o <<"_">> \o Format(role) \o <<"_">> \o Format(employee_id)

\* datetime.now().isoformat()
Timestamp == <<"t">>

\* The (role, employee_id) pairs of assigned_employees.items() in loop order
RECURSIVE Pairs(_)
Pairs(assigned_employees) ==
    IF Len(assigned_employees) = 0 THEN <<>>
    ELSE LET entry == Head(assigned_employees)
         IN  [k \in 1..Len(entry.employee_ids) |->
                 [role |-> entry.role, employee_id |-> entry.employee_ids[k]]]
             \o Pairs(Tail(assigned_employees))

\* An assigned_employees argument that is not a dict (.items() raises).
NoAssignments == <<[role |-> NONE, employee_ids |-> <<>>]>>

\* scheduled_employees_collection.upsert(ids, metadatas): a batch that names
\* an id twice is refused (DuplicateIDError); otherwise each id is created
\* or overwritten.
Upsert(collection, ids, metadatas) ==
    IF \E i, j \in 1..Len(ids) : i # j /\ ids[i] = ids[j]
    THEN [raised |-> TRUE, collection |-> collection]
    ELSE [raised |-> FALSE,
          collection |->
              [id \in DOMAIN collection \cup Range(ids) |->
                  IF id \in Range(ids)
                  THEN metadatas[CHOOSE k \in 1..Len(ids) : ids[k] = id]
                  ELSE collection[id]]]

\* The outcome of save_scheduled_employees: [raised, ret, collection].
\* fault: "details" when employee_collection.get raises inside
\* get_employee_details, "upsert" when the upsert raises, else "none".
save_scheduled_employees(date, day_name, assigned_employees, fault) ==
    LET unchanged == [raised |-> FALSE, ret |-> FALSE,
                      collection |-> scheduled_employees_collection]
    IN
    IF assigned_employees = NoAssignments THEN unchanged   \* .items() raises, caught
    ELSE
    LET schedule_id == schedule_id_of(date)
        pairs == Pairs(assigned_employees)
        details(k) == get_employee_details(pairs[k].employee_id,
                                           fault = "details").ret
        ids == [k \in 1..Len(pairs) |->
                   assignment_id(schedule_id, pairs[k].role, pairs[k].employee_id)]
        metadatas == [k \in 1..Len(pairs) |->
                   [schedule_date |-> date,
                    day_name |-> day_name,
                    employee_id |-> pairs[k].employee_id,
                    employee_name |-> Get(details(k), "name", pairs[k].employee_id),
                    assigned_role |-> pairs[k].role,
                    created_at |-> Timestamp,
                    schedule_id |-> schedule_id]]
    IN  IF \E k \in 1..Len(pairs) : ~IsDict(details(k))
        THEN unchanged                      \* None.get raises, caught
        ELSE IF Len(ids) = 0 THEN unchanged \* nothing to save
        ELSE IF fault = "upsert" THEN unchanged
        ELSE LET done == Upsert(scheduled_employees_collection, ids, metadatas)
             IN  IF done.raised THEN unchanged
                 ELSE [raised |-> FALSE, ret |-> TRUE, collection |-> done.collection]

-----------------------------------------------------------------------------
(* get_scheduled_employees                                                 *)

\* scheduled_employees_collection.get(where={"schedule_date": date})["ids"]
IdsWhere(collection, date) ==
    {id \in DOMAIN collection : collection[id].schedule_date = date}

\* The assignment built from one metadata (lines 267-273)
Assignment(metadata) ==
    [employee_id |-> metadata.employee_id,
     employee_name |-> metadata.employee_name,
     assigned_role |-> metadata.assigned_role,
     day_name |-> metadata.day_name,
     created_at |-> metadata.created_at]

\* The assignments list of the records ids, as a bag: the order of the list
\* is the order in which the store returns the records.
Assignments(collection, ids) ==
    LET views == {Assignment(collection[id]) : id \in ids}
    IN  [a \in views |-> Cardinality({id \in ids : Assignment(collection[id]) = a})]

ScheduleView(collection, date, ids) ==
    LET assignments == Assignments(collection, ids)
    IN  [date |-> date, assignments |-> assignments,
         total_count |-> BagCardinality(assignments)]

\* A slip that forgets the where filter.
get_scheduled_employees_unfiltered(collection, date, fault) ==
    IF fault \/ ~IsStr(date) THEN Returned(ScheduleView(collection, date, {}))
    ELSE Returned(ScheduleView(collection, date, DOMAIN collection))

\* fault: scheduled_employees_collection.get raises, as it does for a date
\* that is not a str
get_scheduled_employees(collection, date, fault) ==
    IF fault \/ ~IsStr(date) THEN Returned(ScheduleView(collection, date, {}))
    ELSE Returned(ScheduleView(collection, date, IdsWhere(collection, date)))

-----------------------------------------------------------------------------
(* delete_scheduled_employees                                              *)

\* A slip that reports failure when there was nothing to delete.
delete_scheduled_employees_strict(date, fault) ==
    LET ids == IF IsStr(date) THEN IdsWhere(scheduled_employees_collection, date)
               ELSE {}
    IN  IF fault # "none" \/ ~IsStr(date) \/ ids = {}
        THEN [raised |-> FALSE, ret |-> FALSE,
              collection |-> scheduled_employees_collection]
        ELSE [raised |-> FALSE, ret |-> TRUE,
              collection |-> [id \in DOMAIN scheduled_employees_collection \ ids |->
                                 scheduled_employees_collection[id]]]

\* A slip that leaves the body outside the try.
delete_scheduled_employees_unguarded(date, fault) ==
    LET ids == IF IsStr(date) THEN IdsWhere(scheduled_employees_collection, date)
               ELSE {}
    IN  IF fault # "none" \/ ~IsStr(date)
        THEN [raised |-> TRUE, ret |-> FALSE,
              collection |-> scheduled_employees_collection]
        ELSE [raised |-> FALSE, ret |-> TRUE,
              collection |-> [id \in DOMAIN scheduled_employees_collection \ ids |->
                                 scheduled_employees_collection[id]]]

\* fault: "get" or "delete" when that store call raises, else "none"
delete_scheduled_employees(date, fault) ==
    LET ids == IF IsStr(date) THEN IdsWhere(scheduled_employees_collection, date)
               ELSE {}
        unchanged(ret) == [raised |-> FALSE, ret |-> ret,
                           collection |-> scheduled_employees_collection]
    IN  IF fault = "get" \/ ~IsStr(date) THEN unchanged(FALSE)
        ELSE IF ids = {} THEN unchanged(TRUE)
        ELSE IF fault = "delete" THEN unchanged(FALSE)
        ELSE [raised |-> FALSE, ret |-> TRUE,
              collection |-> [id \in DOMAIN scheduled_employees_collection \ ids |->
                                 scheduled_employees_collection[id]]]

-----------------------------------------------------------------------------
(* The calls.  Each action is one call of a public function from the       *)
(* sets of arguments it is given; it leaves in call what was passed, which *)
(* store call was made to raise, whether an exception reached the caller   *)
(* and what was returned, and in before the schedule collection it found.  *)

Called(op, args, fault, outcome) ==
    call' = [op |-> op, args |-> args, fault |-> fault,
             raised |-> outcome.raised, ret |-> outcome.ret]

ReadOnly ==
    /\ before' = scheduled_employees_collection
    /\ UNCHANGED <<employee_collection, scheduled_employees_collection,
                   ROLE_MAPPINGS>>

NormalizeRole(roles) ==
    \E role \in roles :
        /\ Called("normalize_role", [role |-> role], "none", normalize_role(role))
        /\ ReadOnly

RetrieveEmployees(requests) ==
    \E required_roles \in requests, fault \in {"none", "get"} :
        /\ Called("retrieve_employees", [required_roles |-> required_roles], fault,
                  retrieve_employees(required_roles, fault))
        /\ ReadOnly

IsEmployeeAvailable(metadatas) ==
    \E metadata \in metadatas :
        /\ Called("is_employee_available", [metadata |-> metadata], "none",
                  Returned(is_employee_available(metadata)))
        /\ ReadOnly

FindBestMatch(names, lists) ==
    \E name \in names, employee_list \in lists :
        \E faulty \in {f \in SUBSET Range(employee_list) : Cardinality(f) <= 1} :
            /\ Called("find_best_match",
                      [name |-> name, employee_list |-> employee_list], faulty,
                      find_best_match(name, employee_list, faulty))
            /\ ReadOnly

GetEmployeeDetails(ids) ==
    \E emp_id \in ids, fault \in BOOLEAN :
        /\ Called("get_employee_details", [emp_id |-> emp_id], fault,
                  get_employee_details(emp_id, fault))
        /\ ReadOnly

SaveScheduledEmployees(dates, day_names, assignments) ==
    \E date \in dates, day_name \in day_names, assigned_employees \in assignments :
        \E fault \in {"none", "details", "upsert"} :
            LET outcome == save_scheduled_employees(date, day_name, assigned_employees,
                                                    fault)
            IN  /\ Called("save_scheduled_employees",
                          [date |-> date, day_name |-> day_name,
                           assigned_employees |-> assigned_employees],
                          fault, outcome)
                /\ before' = scheduled_employees_collection
                /\ scheduled_employees_collection' = outcome.collection
                /\ UNCHANGED <<employee_collection, ROLE_MAPPINGS>>

GetScheduledEmployees(dates) ==
    \E date \in dates, fault \in BOOLEAN :
        /\ Called("get_scheduled_employees", [date |-> date], fault,
                  get_scheduled_employees(scheduled_employees_collection, date, fault))
        /\ ReadOnly

DeleteScheduledEmployees(dates) ==
    \E date \in dates, fault \in {"none", "get", "delete"} :
        LET outcome == delete_scheduled_employees(date, fault)
        IN  \* the delete call can only raise when it is made
            /\ fault = "delete" =>
                   IsStr(date) /\ IdsWhere(scheduled_employees_collection, date) # {}
            /\ Called("delete_scheduled_employees", [date |-> date], fault, outcome)
            /\ before' = scheduled_employees_collection
            /\ scheduled_employees_collection' = outcome.collection
            /\ UNCHANGED <<employee_collection, ROLE_MAPPINGS>>

EmptyCollection == [id \in {} |-> <<>>]

-----------------------------------------------------------------------------------------------------------------------------------------------------
(* The scheduler's use of the module: the schedule of one date is saved,   *)
(* read and deleted with role names and employee ids that contain          *)
(* underscores, while another date holds a schedule of one assignment,     *)
(* next to calls of the other functions on a small employee collection.    *)

Date1 == <<"1">>
Date2 == <<"2">>
DayNames == {<<"M", "o", "n">>}
SavedRoles == << <<"a">>, <<"a", "_", "b">> >>
SavedEmployees == {<<"c">>, <<"b", "_", "c">>}

\* The employees on file: "c" has skills but no name, "d" has a name, "n"
\* has no metadata at all, "k" has skills that are not a str, and "b_c" is
\* not on file.
StaffOnFile ==
    << [id |-> <<"c">>,
        metadata |-> [skills |-> <<"a", ",", " ", "B">>, active |-> TRUE]],
       [id |-> <<"d">>,
        metadata |-> [name |-> <<"D", "y">>, on_leave |-> TRUE]],
       [id |-> <<"n">>, metadata |-> NoneMetadata],
       [id |-> <<"k">>, metadata |-> [skills |-> NONE]] >>

StaffRoleMappings == [r \in {<<"a">>} |-> << <<"A">>, <<"b">> >>]

\* assigned_employees for Date1: the dicts over SavedRoles (in that order)
\* whose lists hold at most MaxIdsPerRole of SavedEmployees, a dict that
\* names the employee without metadata, and an argument that is no dict
AssignedEmployees ==
    LET lists == StrsUpTo(SavedEmployees, MaxIdsPerRole)
        entries(r) == {[role |-> r, employee_ids |-> l] : l \in lists}
    IN  {<<>>}
        \cup {<<e>> : e \in entries(SavedRoles[1]) \cup entries(SavedRoles[2])}
        \cup {<<e, f>> : e \in entries(SavedRoles[1]), f \in entries(SavedRoles[2])}
        \cup {<<[role |-> SavedRoles[1], employee_ids |-> << <<"n">> >>]>>}
        \cup {NoAssignments}

\* assigned_employees for Date2
OtherDayAssignments == {<<[role |-> SavedRoles[1], employee_ids |-> << <<"d">> >>]>>}

Init ==
    /\ employee_collection = StaffOnFile
    /\ ROLE_MAPPINGS = StaffRoleMappings
    /\ scheduled_employees_collection = EmptyCollection
    /\ before = EmptyCollection
    /\ call = NoCall

Next ==
    \/ NormalizeRole({NONE, <<"A", " ", "b", "s">>})
    \/ RetrieveEmployees({NoRoles, <<[role |-> <<"a">>, count |-> 1]>>})
    \/ IsEmployeeAvailable({NoneMetadata, StaffOnFile[1].metadata})
    \/ FindBestMatch({NONE, <<"C">>}, {NoList, <<<<"c">>, <<"n">>>>})
    \/ GetEmployeeDetails({NONE, <<"d">>, <<"b", "_", "c">>, <<"n">>})
    \/ SaveScheduledEmployees({Date1}, DayNames, AssignedEmployees)
    \/ SaveScheduledEmployees({Date2}, DayNames, OtherDayAssignments)
    \/ GetScheduledEmployees({NONE, Date1, Date2})
    \/ DeleteScheduledEmployees({NONE, Date1, Date2})

Spec == Init /\ [][Next]_vars

-----------------------------------------------------------------------------
(* Properties of the schedule functions, under Spec.                       *)

Saved == call.op = "save_scheduled_employees"
Deleted == call.op = "delete_scheduled_employees"

\* What get_scheduled_employees(date) returns next, when the store answers
ReadBack(date) ==
    get_scheduled_employees(scheduled_employees_collection, date, FALSE).ret

\* The (assigned_role, employee_id) pairs carried by a list of assignments
PairsRead(assignments) ==
    {[role |-> a.assigned_role, employee_id |-> a.employee_id] :
        a \in BagToSet(assignments)}

PairStored(metadata) ==
    [role |-> metadata.assigned_role, employee_id |-> metadata.employee_id]

TripleStored(metadata) ==
    <<metadata.schedule_date, metadata.assigned_role, metadata.employee_id>>

RoundTrips ==
    LET pairs == Pairs(call.args.assigned_employees)
        read == ReadBack(call.args.date)
    IN  /\ read.total_count = Len(pairs)
        /\ PairsRead(read.assignments) = Range(pairs)

\* C1, as stated: in any reachable store, when a save of a non-empty mapping
\* A for date D returns True, the next read of D counts exactly the pairs
\* of A and carries exactly those pairs.
C1_RoundTripAnyStore ==
    (Saved /\ call.ret = TRUE) => RoundTrips

\* Every record the store held for the saved date carries a pair of A.
NothingElseStored ==
    \A id \in IdsWhere(before, call.args.date) :
        PairStored(before[id]) \in Range(Pairs(call.args.assigned_employees))

\* C1, amended: the round trip holds when every record stored for D before
\* the save carries a pair of A (in particular when none is stored for D).
C1_RoundTrip ==
    (Saved /\ call.ret = TRUE /\ NothingElseStored) => RoundTrips

\* A save of two pairs for a date without records, next to another date's.
C1_Witness ==
    /\ Saved /\ call.ret = TRUE
    /\ Len(Pairs(call.args.assigned_employees)) = 2
    /\ IdsWhere(before, call.args.date) = {}
    /\ before # EmptyCollection
    /\ RoundTrips

OneRecordPerTriple ==
    \A id1, id2 \in DOMAIN scheduled_employees_collection :
        TripleStored(scheduled_employees_collection[id1])
            = TripleStored(scheduled_employees_collection[id2]) => id1 = id2

SavedAgain ==
    /\ Saved /\ call.ret = TRUE
    /\ call'.op = "save_scheduled_employees"
    /\ call'.args = call.args

\* C2: a (date, role, employee) triple saved twice is stored once, and a
\* second save of the same date and mapping leaves the stored ids and the
\* count read for the date as the first save left them.
C2_SaveIdempotent ==
    /\ []OneRecordPerTriple
    /\ [][SavedAgain =>
            /\ DOMAIN scheduled_employees_collection'
                   = DOMAIN scheduled_employees_collection
            /\ ReadBack(call.args.date)'.total_count
                   = ReadBack(call.args.date).total_count]_vars

\* A successful save whose records were all stored already, unchanged.
C2_Witness ==
    /\ Saved /\ call.ret = TRUE
    /\ DOMAIN before = DOMAIN scheduled_employees_collection
    /\ \E id \in DOMAIN before :
           /\ before[id] = scheduled_employees_collection[id]
           /\ before[id].schedule_date = call.args.date
           /\ PairStored(before[id]) \in Range(Pairs(call.args.assigned_employees))
    /\ OneRecordPerTriple

NoStoreCallFailed == call.fault = "none" /\ IsStr(call.args.date)

\* C3: when no store call fails a delete returns True, whether or not the
\* date had records, and the date then reads as empty; it returns False
\* only when a store call raised.
C3_DeletePostcondition ==
    Deleted =>
        /\ NoStoreCallFailed =>
               /\ call.ret = TRUE
               /\ ReadBack(call.args.date).total_count = 0
               /\ DOMAIN ReadBack(call.args.date).assignments = {}
        /\ call.ret = FALSE => ~NoStoreCallFailed

\* A delete that removed the records of its date and left another date's.
C3_Witness ==
    /\ Deleted /\ NoStoreCallFailed /\ call.ret = TRUE
    /\ IdsWhere(before, call.args.date) # {}
    /\ scheduled_employees_collection # EmptyCollection
    /\ ReadBack(call.args.date).total_count = 0

\* C10: distinct (date, role, employee_id) triples get distinct assignment
\* ids: a save never overwrites the record of another triple, and never
\* builds one id for two different pairs of its mapping.
C10_CompositeIdInjective ==
    Saved =>
        /\ \A id \in DOMAIN before \cap DOMAIN scheduled_employees_collection :
               TripleStored(before[id])
                   = TripleStored(scheduled_employees_collection[id])
        /\ LET pairs == Range(Pairs(call.args.assigned_employees))
               id_of(p) == assignment_id(schedule_id_of(call.args.date),
                                         p.role, p.employee_id)
           IN  \A p, q \in pairs : id_of(p) = id_of(q) => p = q

-----------------------------------------------------------------------------
(* The error policy, under Spec.                                           *)

\* C9, as stated: no call of a public function lets an exception through.
C9_NothingPropagates == ~call.raised

Guarded ==
    {"retrieve_employees", "is_employee_available", "get_employee_details",
     "save_scheduled_employees", "get_scheduled_employees",
     "delete_scheduled_employees"}

\* C9, amended: the six functions whose body is inside a try never let an
\* exception through and answer a failed store call or an ill-formed
\* argument with their default; normalize_role has no try, and
\* find_best_match guards only the body of its loop, so it is the failing
\* fetch of a candidate that it survives.
C9_GuardedFunctionsDefault ==
    /\ call.op \in Guarded => ~call.raised
    /\ (call.op = "find_best_match" /\ IsStr(call.args.name)
            /\ call.args.employee_list # NoList) => ~call.raised
    /\ (call.op = "retrieve_employees"
            /\ (call.fault = "get" \/ call.args.required_roles = NoRoles))
           => call.ret = EmptyDict
    /\ (call.op = "is_employee_available" /\ ~IsDict(call.args.metadata))
           => call.ret = FALSE
    /\ (call.op = "get_employee_details" /\ (call.fault \/ ~IsStr(call.args.emp_id)))
           => call.ret = EmptyMetadata
    /\ (Saved /\ call.args.assigned_employees = NoAssignments) => call.ret = FALSE
    /\ (Saved /\ call.fault = "upsert") => call.ret = FALSE
    /\ (call.op = "get_scheduled_employees" /\ (call.fault \/ ~IsStr(call.args.date)))
           => call.ret.total_count = 0 /\ DOMAIN call.ret.assignments = {}
    /\ (Deleted /\ ~NoStoreCallFailed) => call.ret = FALSE

\* A delete whose store call raised, answered with False, the records kept.
C9_Witness ==
    /\ Deleted /\ call.fault = "delete"
    /\ ~call.raised /\ call.ret = FALSE
    /\ scheduled_employees_collection = before

-----------------------------------------------------------------------------
(* normalize_role on every short role name: one call per behaviour.        *)

RoleNames == StrsUpTo({"a", "s", "S", " ", "_"}, MaxRoleLen) \cup {NONE}

NextNormalize == call = NoCall /\ NormalizeRole(RoleNames)

SpecNormalize == Init /\ [][NextNormalize]_vars

Normalized == call.op = "normalize_role" /\ ~call.raised

\* C8, as stated: normalizing a normalized role name changes nothing.
C8_Idempotent ==
    Normalized => normalize_role(call.ret).ret = call.ret

EndsInDoubleS(s) == Len(s) >= 2 /\ s[Len(s)] = "s" /\ s[Len(s) - 1] = "s"

\* C8, amended: normalizing a normalized role name changes nothing unless
\* the name, lower-cased and stripped, ends in "ss" (one 's' is removed each
\* time).
C8_IdempotentUnlessDoubleS ==
    (Normalized /\ ~EndsInDoubleS(Strip(Lower(call.args.role))))
        => normalize_role(call.ret).ret = call.ret

\* "S as" becomes "s_a", which normalizes to itself.
C8_Witness ==
    /\ Normalized
    /\ call.args.role = <<"S", " ", "a", "s">>
    /\ call.ret = <<"s", "_", "a">>
    /\ normalize_role(call.ret).ret = call.ret

-----------------------------------------------------------------------------
(* retrieve_employees on every small employee collection: one call per     *)
(* behaviour.                                                              *)

EmployeeId(i) == <<"e", ToString(i)>>

\* Metadata of an employee: available, inactive or on the night shift only,
\* with skills that are absent, not a str, or one of four texts.
RetrievableMetadatas ==
    LET availability == {EmptyMetadata,
                         [active |-> FALSE],
                         [shift_preferences |-> <<NIGHT>>]}
        skills == {NONE,
                   <<"C", ",", "D">>,
                   <<" ", "d", " ">>,
                   <<"c", " ", "d">>,
                   <<"c", "d">>}
    IN  {NoneMetadata}
        \cup availability
        \cup {a @@ [skills |-> t] : a \in availability, t \in skills}

RECURSIVE CollectionsOf(_)
CollectionsOf(n) ==
    IF n = 0 THEN {<<>>}
    ELSE {Append(c, [id |-> EmployeeId(n), metadata |-> m]) :
             c \in CollectionsOf(n - 1), m \in RetrievableMetadatas}

RetrievableCollections == UNION {CollectionsOf(n) : n \in 0..MaxEmployees}

RoleC == <<"c">>
RoleD == <<"d">>

\* The alias tables: role "c" configured with two variations, or no role
\* configured at all
RoleMappingTables ==
    {[r \in {RoleC} |-> << <<"C">>, <<"c", " ", "d">> >>],
     [r \in {} |-> <<>>]}

RoleRequests ==
    LET one(r) == [role |-> r, count |-> 1]
    IN  {<<>>, <<one(RoleC)>>, <<one(RoleD)>>, <<one(RoleC), one(RoleD)>>,
         <<one(RoleD), one(RoleC)>>, NoRoles}

InitRetrieve ==
    /\ employee_collection \in RetrievableCollections
    /\ ROLE_MAPPINGS \in RoleMappingTables
    /\ scheduled_employees_collection = EmptyCollection
    /\ before = EmptyCollection
    /\ call = NoCall

NextRetrieve == call = NoCall /\ RetrieveEmployees(RoleRequests)

SpecRetrieve == InitRetrieve /\ [][NextRetrieve]_vars

Retrieved == call.op = "retrieve_employees" /\ call.args.required_roles # NoRoles

RequestedRoles == {e.role : e \in Range(call.args.required_roles)}

\* An exception is raised during the call: the fetch fails, or the skills
\* of an available employee are not a str.
ExceptionRaised ==
    \/ call.fault = "get"
    \/ /\ call.args.required_roles # <<>>
       /\ \E e \in Range(employee_collection) :
              /\ is_employee_available(e.metadata)
              /\ ~IsStr(Get(e.metadata, "skills", <<>>))

\* C4, as stated: whatever happens during the call, the mapping returned
\* has a key for every role of required_roles.
C4_RoleKeysAlwaysExist ==
    Retrieved => DOMAIN call.ret = RequestedRoles

\* C4, amended: the mapping has a key for every role of required_roles when
\* no exception is raised during the call; when one is raised it has keys
\* for the roles reached until then only (none when the fetch fails).
C4_RoleKeysUnlessException ==
    Retrieved =>
        /\ ~ExceptionRaised => DOMAIN call.ret = RequestedRoles
        /\ \E k \in 0..Len(call.args.required_roles) :
               DOMAIN call.ret = {call.args.required_roles[i].role : i \in 1..k}
        /\ call.fault = "get" => call.ret = EmptyDict

\* Two roles asked for, no exception, and a role nobody matches has its key.
C4_Witness ==
    /\ Retrieved /\ ~ExceptionRaised
    /\ Len(call.args.required_roles) = 2
    /\ DOMAIN call.ret = RequestedRoles
    /\ \E r \in RequestedRoles : call.ret[r] = <<>>
    /\ \E r \in RequestedRoles : call.ret[r] # <<>>

SkillSet(metadata) ==
    {Strip(t) : t \in Range(SplitComma(Lower(Get(metadata, "skills", <<>>)), <<>>))}

AliasSet(role) == {Lower(v) : v \in Range(Get(ROLE_MAPPINGS, role, <<role>>))}

Eligible(e, role) ==
    /\ is_employee_available(e.metadata)
    /\ SkillSet(e.metadata) \cap AliasSet(role) # {}

EligibleIds(role) ==
    LET hits == SelectSeq(employee_collection, LAMBDA e : Eligible(e, role))
    IN  [i \in 1..Len(hits) |-> hits[i].id]

\* C5: when no exception is raised, the list of each role holds, in store
\* order, exactly the ids of the available employees whose skills (split at
\* commas, stripped, lower-cased) meet the lower-cased aliases of the role;
\* no unavailable employee is in it and the required count does not cap it.
C5_RetrievalByRole ==
    (Retrieved /\ ~ExceptionRaised) =>
        \A r \in RequestedRoles :
            /\ r \in DOMAIN call.ret
            /\ call.ret[r] = EligibleIds(r)
            /\ \A e \in Range(employee_collection) :
                   e.id \in Range(call.ret[r]) => is_employee_available(e.metadata)

\* Two employees returned for a role of which one was required.
C5_Witness ==
    /\ Retrieved /\ ~ExceptionRaised
    /\ \E e \in Range(call.args.required_roles) :
           /\ e.role \in DOMAIN call.ret
           /\ Len(call.ret[e.role]) = 2
           /\ e.count = 1
           /\ call.ret[e.role] = EligibleIds(e.role)

-----------------------------------------------------------------------------
(* find_best_match on every short name and candidate list: one call per    *)
(* behaviour.                                                              *)

\* The employees to match against: two with stored variations (sharing
\* "abab"), one whose id stands in for its name, one whose variations do
\* not parse; the candidate "gone" is not on file.
Applicants ==
    << [id |-> <<"k", "1">>,
        metadata |-> [name_variations |->
            [ok |-> TRUE, list |-> << <<"a", "b", "a", "b">>, <<"A", "a", "b">> >>]]],
       [id |-> <<"k", "2">>,
        metadata |-> [name_variations |->
            [ok |-> TRUE, list |-> << <<"b", "b", "a", "a">>, <<"A", "B", "a", "b">> >>]]],
       [id |-> <<"a", "b", "b", "a">>, metadata |-> EmptyMetadata],
       [id |-> <<"b", "a", "d">>, metadata |-> [name_variations |-> BadJson]] >>

CandidateIds ==
    {<<"k", "1">>, <<"k", "2">>, <<"a", "b", "b", "a">>, <<"b", "a", "d">>,
     <<"g", "o", "n", "e">>}

Names == StrsUpTo({"a", "b", "A"}, MaxNameLen) \cup {NONE}

CandidateLists == StrsUpTo(CandidateIds, MaxCandidates) \cup {NoList}

InitMatch ==
    /\ employee_collection = Applicants
    /\ ROLE_MAPPINGS = StaffRoleMappings
    /\ scheduled_employees_collection = EmptyCollection
    /\ before = EmptyCollection
    /\ call = NoCall

NextMatch == call = NoCall /\ FindBestMatch(Names, CandidateLists)

SpecMatch == InitMatch /\ [][NextMatch]_vars

Matched == call.op = "find_best_match" /\ ~call.raised

\* The variations of the i-th candidate, when its record is fetched and
\* parsed without error; <<>> otherwise
VariationsOf(i) ==
    LET emp_id == call.args.employee_list[i]
        on_file == {e \in Range(employee_collection) : e.id = emp_id}
    IN  IF emp_id \in call.fault \/ on_file = {} THEN <<>>
        ELSE LET metadata == (CHOOSE e \in on_file : TRUE).metadata
             IN  IF ~IsDict(metadata) THEN <<>>
                 ELSE LET stored == Get(metadata, "name_variations", NoVariations)
                      IN  IF ~stored.ok THEN <<>>
                          ELSE IF Len(stored.list) = 0 THEN <<emp_id>>
                          ELSE stored.list

\* The distances from the name to the variations of the i-th candidate
Distances(i) ==
    {Levenshtein(Lower(call.args.name), Lower(v)) : v \in Range(VariationsOf(i))}

Candidates == 1..Len(call.args.employee_list)

ExactCandidates == {i \in Candidates : 0 \in Distances(i)}

Smallest(S) == CHOOSE x \in S : \A y \in S : x <= y

C7_ExactMatchFirst ==
    (Matched /\ ExactCandidates # {}) =>
        call.ret = call.args.employee_list[Smallest(ExactCandidates)]

\* Two different candidates have the name among their variations, in another
\* case, and the first is returned.
C7_Witness ==
    /\ Matched
    /\ ExactCandidates = {1, 2}
    /\ call.args.employee_list[1] # call.args.employee_list[2]
    /\ call.args.name \notin Range(VariationsOf(1))
    /\ call.ret = call.args.employee_list[1]

====
